---- MODULE Spec2Model ----
(***************************************************************************)
(* Model of .github/scripts/screenshot.js: the orchestrator main(), the    *)
(* timestamp ledger (readTimestamps / writeTimestamps), project discovery  *)
(* (getProjectFolders), the metadata client (getRepoInfo) and the capture  *)
(* call (takeScreenshot) with its try/finally browser teardown.            *)
(***************************************************************************)
EXTENDS Integers, Sequences, FiniteSets, TLC

\* ------------------------------------------------------------------ bounds
\* Timestamps carry a local clock reading in 0..MaxTime.
MaxTime == 1

\* ------------------------------------------------------------- value space
\* JavaScript null / undefined for a timestamp, and for a string.
NoDate == <<>>
Null == "null"

\* UTC offsets (hours) an ISO-8601 string can carry.
Offsets == {0, 1}

\* An ISO-8601 timestamp string: <<local clock reading, UTC offset>>.
TimeStrs == (0..MaxTime) \X Offsets

\* new Date(s): the instant a timestamp string denotes.
ParseDate(s) == s[1] - s[2]

\* JavaScript truthiness of a string-or-null value.
Truthy(v) == v \notin {Null, ""}

\* JavaScript truthiness of a timestamp-string-or-undefined value.
TruthyDate(d) == d # NoDate

\* process.env.GITHUB_TOKEN: unset, empty, or a token.
Tokens == {Null, "", "ghp_token"}

\* Homepage URLs a repository can have configured.
Urls == {"https://a.example", "https://b.example"}

\* What the GraphQL service holds for one repository: the homepage may be
\* null or the empty string, the commit date is absent for a missing
\* repository or one without a default branch.
RepoStates == [homepageUrl : Urls \cup {Null, ""}, committedDate : TimeStrs \cup {NoDate}]

\* ROOT_DIR as readdirSync lists it: name, first character, kind, and the
\* files of its assets directory (hasAssets FALSE when there is none).
RootEntries ==
  << [name |-> ".git",      first |-> ".", isDirectory |-> TRUE,  hasAssets |-> FALSE, assets |-> {}],
     [name |-> "README.md", first |-> "R", isDirectory |-> FALSE, hasAssets |-> FALSE, assets |-> {}],
     [name |-> "proj-a",    first |-> "p", isDirectory |-> TRUE,  hasAssets |-> TRUE,  assets |-> {"Showcase.png", "Showcase.webp"}],
     [name |-> "proj-b",    first |-> "p", isDirectory |-> TRUE,  hasAssets |-> TRUE,  assets |-> {"other.png"}],
     [name |-> "proj-c",    first |-> "p", isDirectory |-> TRUE,  hasAssets |-> TRUE,  assets |-> {"Showcase.webp"}] >>

\* Array.prototype.filter over a sequence, keeping order.
RECURSIVE FilterSeq(_, _)
FilterSeq(s, keep) ==
  IF s = <<>> THEN <<>>
  ELSE IF Head(s) \in keep THEN <<Head(s)>> \o FilterSeq(Tail(s), keep)
       ELSE FilterSeq(Tail(s), keep)

\* Entries that pass both filters of getProjectFolders.
ShowcaseEntries ==
  { e \in {RootEntries[i] : i \in 1..Len(RootEntries)} :
      /\ e.isDirectory /\ e.first # "."
      /\ e.hasAssets
      /\ \E f \in e.assets : f = "Showcase.png" \/ f = "Showcase.webp" }

\* getProjectFolders(): the names of the kept entries, in listing order.
getProjectFolders ==
  LET kept == FilterSeq(RootEntries, ShowcaseEntries)
  IN  [i \in 1..Len(kept) |-> kept[i].name]

\* Every repository name the run can ask about.
Projects == {getProjectFolders[i] : i \in 1..Len(getProjectFolders)}

\* The entry of ROOT_DIR with the given name.
EntryOf(project) ==
  CHOOSE e \in {RootEntries[i] : i \in 1..Len(RootEntries)} : e.name = project

\* getShowcasePath(project): Showcase.png when it exists, else Showcase.webp.
getShowcasePath(project) ==
  IF "Showcase.png" \in EntryOf(project).assets
  THEN <<project, "assets", "Showcase.png">>
  ELSE <<project, "assets", "Showcase.webp">>

\* A directory that no longer passes discovery can still have a ledger entry.
StaleKeys == {"proj-b"}

\* The keys a ledger can have.
LedgerKeys == Projects \cup StaleKeys

\* The entry a stale key has, when it has one.
StaleDate == <<0, 0>>

\* An in-memory ledger: key -> timestamp string, NoDate when no entry.
Ledgers ==
  { l \in [LedgerKeys -> TimeStrs \cup {NoDate}] :
      \A k \in StaleKeys : l[k] \in {NoDate, StaleDate} }

\* The object {}.
EmptyLedger == [k \in LedgerKeys |-> NoDate]

\* The state file: missing, unparsable, or a JSON object.
DiskStates ==
  {[kind |-> "missing", obj |-> EmptyLedger], [kind |-> "corrupt", obj |-> EmptyLedger]}
  \cup {[kind |-> "json", obj |-> l] : l \in Ledgers}

\* readTimestamps(): the parsed object, {} when missing or unparsable.
readTimestamps(file) ==
  IF file.kind = "json" THEN file.obj ELSE EmptyLedger

\* writeTimestamps(timestamps): the file after the overwrite.
writeTimestamps(ts) == [kind |-> "json", obj |-> ts]

\* getRepoInfo's return value for a repository state: falsy fields become null.
getRepoInfo(repo) ==
  [ homepageUrl   |-> IF Truthy(repo.homepageUrl) THEN repo.homepageUrl ELSE Null,
    committedDate |-> IF TruthyDate(repo.committedDate) THEN repo.committedDate ELSE NoDate ]

NoInfo == [homepageUrl |-> Null, committedDate |-> NoDate]

\* Line 180 with the comparison turned round: a commit newer than the entry
\* is taken for up to date.
UpToDateReversed(committedDate, lastScreenshot) ==
  TruthyDate(lastScreenshot) /\ ParseDate(committedDate) >= ParseDate(lastScreenshot)

\* Line 180 with < for <=: a commit at the very instant of the entry is
\* taken for new.
UpToDateStrict(committedDate, lastScreenshot) ==
  TruthyDate(lastScreenshot) /\ ParseDate(committedDate) < ParseDate(lastScreenshot)

\* Line 180: the ledger entry exists and the commit is not newer than it.
UpToDate(committedDate, lastScreenshot) ==
  TruthyDate(lastScreenshot) /\ ParseDate(committedDate) <= ParseDate(lastScreenshot)

\* ------------------------------------------------------------------- state
VARIABLES
  token,              \* GITHUB_TOKEN
  disk,               \* TIMESTAMPS_FILE
  remote,             \* the repositories as the GraphQL service holds them
  pc,                 \* position of main / takeScreenshot
  exitCode,           \* -1 while running, else the process exit status
  timestamps,         \* main's `timestamps`
  projects,           \* main's `projects`
  idx,                \* index of the loop's current project
  info,               \* {homepageUrl, committedDate} fetched for the current project
  screenshotCount,
  timestampOnlyCount,
  browsers,           \* live browser instances
  pending,            \* an error raised inside takeScreenshot's try block
  run,                \* which run of the script this is
  \* ---- history of the current run
  loads,              \* calls of readTimestamps
  writes,             \* calls of writeTimestamps
  startLedger,        \* the ledger as loaded
  fetched,            \* projects whose getRepoInfo returned
  raised,             \* projects whose processing ended in the catch block
  captures,           \* project -> sequence of takeScreenshot(url, outputPath) calls
  counted,            \* project -> which counter its processing incremented
  launched,           \* browsers launched so far
  prevRaised,         \* `raised` of the previous run
  prevCounted         \* `counted` of the previous run

vars == << token, disk, remote, pc, exitCode, timestamps, projects, idx, info,
           screenshotCount, timestampOnlyCount, browsers, pending, run,
           loads, writes, startLedger, fetched, raised, captures, counted,
           launched, prevRaised, prevCounted >>

hist == << loads, writes, startLedger, fetched, raised, captures, counted,
           launched, prevRaised, prevCounted >>

\* The state of a freshly started process.
FreshProcess ==
  /\ pc = "main"
  /\ exitCode = -1
  /\ timestamps = EmptyLedger
  /\ projects = <<>>
  /\ idx = 0
  /\ info = NoInfo
  /\ screenshotCount = 0
  /\ timestampOnlyCount = 0
  /\ browsers = 0
  /\ pending = FALSE
  /\ loads = 0
  /\ writes = 0
  /\ startLedger = EmptyLedger
  /\ fetched = {}
  /\ raised = {}
  /\ captures = [p \in Projects |-> <<>>]
  /\ counted = [p \in Projects |-> "none"]
  /\ launched = 0

Init ==
  /\ token \in Tokens
  /\ disk \in DiskStates
  /\ remote \in [Projects -> RepoStates]
  /\ run = 1
  /\ prevRaised = {}
  /\ prevCounted = [p \in Projects |-> "none"]
  /\ FreshProcess

\* The project the loop is at.
project == projects[idx]

\* Where control goes when the loop body of project i ends (continue, fall
\* off the end, or the catch block): the next iteration or line 207.
AfterIteration(i) == IF i < Len(projects) THEN "getRepoInfo" ELSE "writeTimestamps"

\* Leave the loop body of the current project by `continue` or by reaching
\* its end.
NextProject ==
  /\ idx' = idx + 1
  /\ info' = NoInfo
  /\ pc' = AfterIteration(idx)

\* The loop body without its try/catch: the error escapes main and the
\* process exits with status 1.
CatchRethrow ==
  /\ raised' = raised \cup {project}
  /\ UNCHANGED << idx, info >>
  /\ pc' = "exited"

\* Lines 202-204: the catch block of the current project, then the next one.
Catch ==
  /\ raised' = raised \cup {project}
  /\ NextProject

\* Lines 155-158: no token, process.exit(1).
TokenMissing ==
  /\ pc = "main"
  /\ ~Truthy(token)
  /\ pc' = "exited"
  /\ exitCode' = 1
  /\ UNCHANGED << token, disk, remote, timestamps, projects, idx, info,
                  screenshotCount, timestampOnlyCount, browsers, pending, run, hist >>

\* Line 160 reached without the token check of lines 155-158.
ReadTimestampsUnguarded ==
  /\ pc = "main"
  /\ timestamps' = readTimestamps(disk)
  /\ startLedger' = readTimestamps(disk)
  /\ loads' = loads + 1
  /\ pc' = "getProjectFolders"
  /\ UNCHANGED << token, disk, remote, exitCode, projects, idx, info,
                  screenshotCount, timestampOnlyCount, browsers, pending, run,
                  writes, fetched, raised, captures, counted, launched, prevRaised, prevCounted >>

\* Line 160: const timestamps = readTimestamps().
ReadTimestamps ==
  /\ pc = "main"
  /\ Truthy(token)
  /\ timestamps' = readTimestamps(disk)
  /\ startLedger' = readTimestamps(disk)
  /\ loads' = loads + 1
  /\ pc' = "getProjectFolders"
  /\ UNCHANGED << token, disk, remote, exitCode, projects, idx, info,
                  screenshotCount, timestampOnlyCount, browsers, pending, run,
                  writes, fetched, raised, captures, counted, launched, prevRaised, prevCounted >>

\* Lines 161-167: const projects = getProjectFolders(); the counters; the
\* loop is entered.
GetProjectFolders ==
  /\ pc = "getProjectFolders"
  /\ projects' = getProjectFolders
  /\ screenshotCount' = 0
  /\ timestampOnlyCount' = 0
  /\ idx' = 1
  /\ pc' = IF Len(getProjectFolders) > 0 THEN "getRepoInfo" ELSE "writeTimestamps"
  /\ UNCHANGED << token, disk, remote, exitCode, timestamps, info,
                  browsers, pending, run, hist >>

\* Line 171: await getRepoInfo(REPO_OWNER, project) returns, or rejects
\* (network or API error) and the catch block runs.
GetRepoInfo ==
  /\ pc = "getRepoInfo"
  /\ \/ /\ info' = getRepoInfo(remote[project])
        /\ fetched' = fetched \cup {project}
        /\ pc' = "decide"
        /\ UNCHANGED << idx, raised >>
     \/ /\ Catch
        /\ UNCHANGED fetched
  /\ UNCHANGED << token, disk, remote, exitCode, timestamps, projects,
                  screenshotCount, timestampOnlyCount, browsers, pending, run,
                  loads, writes, startLedger, captures, counted, launched, prevRaised, prevCounted >>

\* Lines 173-176 with the ledger assignment of line 188 made before the
\* null check.
SkipNoCommitRecords ==
  /\ pc = "decide"
  /\ ~TruthyDate(info.committedDate)
  /\ timestamps' = [timestamps EXCEPT ![project] = info.committedDate]
  /\ NextProject
  /\ UNCHANGED << token, disk, remote, exitCode, projects,
                  screenshotCount, timestampOnlyCount, browsers, pending, run, hist >>

\* Lines 173-176: no commit date, skip.
SkipNoCommit ==
  /\ pc = "decide"
  /\ ~TruthyDate(info.committedDate)
  /\ NextProject
  /\ UNCHANGED << token, disk, remote, exitCode, timestamps, projects,
                  screenshotCount, timestampOnlyCount, browsers, pending, run, hist >>

\* Lines 178-183: the ledger entry is at least as recent as the commit.
SkipUpToDate ==
  /\ pc = "decide"
  /\ TruthyDate(info.committedDate)
  /\ UpToDate(info.committedDate, timestamps[project])
  /\ NextProject
  /\ UNCHANGED << token, disk, remote, exitCode, timestamps, projects,
                  screenshotCount, timestampOnlyCount, browsers, pending, run, hist >>

\* Lines 185-191 counting the update as a screenshot.
TimestampOnlyMiscounted ==
  /\ pc = "decide"
  /\ TruthyDate(info.committedDate)
  /\ ~UpToDate(info.committedDate, timestamps[project])
  /\ ~Truthy(info.homepageUrl)
  /\ timestamps' = [timestamps EXCEPT ![project] = info.committedDate]
  /\ screenshotCount' = screenshotCount + 1
  /\ counted' = [counted EXCEPT ![project] = "screenshot"]
  /\ NextProject
  /\ UNCHANGED << token, disk, remote, exitCode, projects, timestampOnlyCount,
                  browsers, pending, run, loads, writes, startLedger, fetched,
                  raised, captures, launched, prevRaised, prevCounted >>

\* Lines 185-191 without line 189: the update is not counted.
TimestampOnlyUncounted ==
  /\ pc = "decide"
  /\ TruthyDate(info.committedDate)
  /\ ~UpToDate(info.committedDate, timestamps[project])
  /\ ~Truthy(info.homepageUrl)
  /\ timestamps' = [timestamps EXCEPT ![project] = info.committedDate]
  /\ counted' = [counted EXCEPT ![project] = "timestampOnly"]
  /\ NextProject
  /\ UNCHANGED << token, disk, remote, exitCode, projects, screenshotCount,
                  timestampOnlyCount, browsers, pending, run, loads, writes,
                  startLedger, fetched, raised, captures, launched, prevRaised, prevCounted >>

\* Lines 185-191: no homepage, record the commit date only.
TimestampOnly ==
  /\ pc = "decide"
  /\ TruthyDate(info.committedDate)
  /\ ~UpToDate(info.committedDate, timestamps[project])
  /\ ~Truthy(info.homepageUrl)
  /\ timestamps' = [timestamps EXCEPT ![project] = info.committedDate]
  /\ timestampOnlyCount' = timestampOnlyCount + 1
  /\ counted' = [counted EXCEPT ![project] = "timestampOnly"]
  /\ NextProject
  /\ UNCHANGED << token, disk, remote, exitCode, projects, screenshotCount,
                  browsers, pending, run, loads, writes, startLedger, fetched,
                  raised, captures, launched, prevRaised, prevCounted >>

\* Lines 193-198 with the ledger assignment of line 198 made before the
\* capture.
CallTakeScreenshotRecordFirst ==
  /\ pc = "decide"
  /\ TruthyDate(info.committedDate)
  /\ ~UpToDate(info.committedDate, timestamps[project])
  /\ Truthy(info.homepageUrl)
  /\ timestamps' = [timestamps EXCEPT ![project] = info.committedDate]
  /\ captures' = [captures EXCEPT ![project] =
                    Append(@, [url |-> info.homepageUrl, outputPath |-> getShowcasePath(project)])]
  /\ pc' = "launch"
  /\ UNCHANGED << token, disk, remote, exitCode, projects, idx, info,
                  screenshotCount, timestampOnlyCount, browsers, pending, run,
                  loads, writes, startLedger, fetched, raised, counted, launched, prevRaised, prevCounted >>

\* Lines 193-196: takeScreenshot(homepageUrl, getShowcasePath(project)) is called.
CallTakeScreenshot ==
  /\ pc = "decide"
  /\ TruthyDate(info.committedDate)
  /\ ~UpToDate(info.committedDate, timestamps[project])
  /\ Truthy(info.homepageUrl)
  /\ captures' = [captures EXCEPT ![project] =
                    Append(@, [url |-> info.homepageUrl, outputPath |-> getShowcasePath(project)])]
  /\ pc' = "launch"
  /\ UNCHANGED << token, disk, remote, exitCode, timestamps, projects, idx, info,
                  screenshotCount, timestampOnlyCount, browsers, pending, run,
                  loads, writes, startLedger, fetched, raised, counted, launched, prevRaised, prevCounted >>

\* Lines 123-125: puppeteer.launch resolves with a new browser, or rejects
\* before the try block is entered.
Launch ==
  /\ pc = "launch"
  /\ \/ /\ browsers' = browsers + 1
        /\ launched' = launched + 1
        /\ pc' = "newPage"
        /\ UNCHANGED << idx, info, raised >>
     \/ /\ Catch
        /\ UNCHANGED << browsers, launched >>
  /\ UNCHANGED << token, disk, remote, exitCode, timestamps, projects,
                  screenshotCount, timestampOnlyCount, pending, run,
                  loads, writes, startLedger, fetched, captures, counted, prevRaised, prevCounted >>

\* One awaited call inside the try block of takeScreenshot: it resolves and
\* control moves on, or it rejects and control enters the finally block.
TryStep(here, next) ==
  /\ pc = here
  /\ \/ pc' = next /\ UNCHANGED pending
     \/ pc' = "finally" /\ pending' = TRUE
  /\ UNCHANGED << token, disk, remote, exitCode, timestamps, projects, idx, info,
                  screenshotCount, timestampOnlyCount, browsers, run, hist >>

\* Line 128: browser.newPage().
NewPage == TryStep("newPage", "setViewport")

\* Line 129: page.setViewport(...).
SetViewport == TryStep("setViewport", "goto")

\* Line 130: page.goto(url, {waitUntil: 'load', timeout: 30000}).
Goto == TryStep("goto", "screenshot")

\* Lines 132-135: page.screenshot({path, type}); the try block ends.
Screenshot == TryStep("screenshot", "finally")

\* Lines 136-139 with browser.close() as the last statement of the try block
\* instead of a finally block: an error skips it.
BrowserCloseOnSuccessOnly ==
  /\ pc = "finally"
  /\ browsers' = IF pending THEN browsers ELSE browsers - 1
  /\ pending' = FALSE
  /\ \/ /\ ~pending
        /\ pc' = "record"
        /\ UNCHANGED << idx, info, raised >>
     \/ /\ pending
        /\ Catch
  /\ UNCHANGED << token, disk, remote, exitCode, timestamps, projects,
                  screenshotCount, timestampOnlyCount, run,
                  loads, writes, startLedger, fetched, captures, counted,
                  launched, prevRaised, prevCounted >>

\* Lines 136-139: finally { await browser.close() }, then takeScreenshot
\* returns, or rethrows the pending error (or close's own) into the catch
\* block of main.
BrowserClose ==
  /\ pc = "finally"
  /\ browsers' = browsers - 1
  /\ pending' = FALSE
  /\ \/ /\ ~pending
        /\ pc' = "record"
        /\ UNCHANGED << idx, info, raised >>
     \/ Catch
  /\ UNCHANGED << token, disk, remote, exitCode, timestamps, projects,
                  screenshotCount, timestampOnlyCount, run,
                  loads, writes, startLedger, fetched, captures, counted,
                  launched, prevRaised, prevCounted >>

\* Lines 198-201 without line 198: the screenshot is counted, the commit
\* date is not stored.
RecordScreenshotNoStore ==
  /\ pc = "record"
  /\ screenshotCount' = screenshotCount + 1
  /\ counted' = [counted EXCEPT ![project] = "screenshot"]
  /\ NextProject
  /\ UNCHANGED << token, disk, remote, exitCode, timestamps, projects,
                  timestampOnlyCount, browsers, pending, run, loads, writes,
                  startLedger, fetched, raised, captures, launched, prevRaised, prevCounted >>

\* Lines 198-201: the capture succeeded, record the commit date.
RecordScreenshot ==
  /\ pc = "record"
  /\ timestamps' = [timestamps EXCEPT ![project] = info.committedDate]
  /\ screenshotCount' = screenshotCount + 1
  /\ counted' = [counted EXCEPT ![project] = "screenshot"]
  /\ NextProject
  /\ UNCHANGED << token, disk, remote, exitCode, projects, timestampOnlyCount,
                  browsers, pending, run, loads, writes, startLedger, fetched,
                  raised, captures, launched, prevRaised, prevCounted >>

\* Lines 207-216: writeTimestamps(timestamps), the summary, main resolves.
WriteTimestamps ==
  /\ pc = "writeTimestamps"
  /\ disk' = writeTimestamps(timestamps)
  /\ writes' = writes + 1
  /\ pc' = "done"
  /\ exitCode' = 0
  /\ UNCHANGED << token, remote, timestamps, projects, idx, info,
                  screenshotCount, timestampOnlyCount, browsers, pending, run,
                  loads, startLedger, fetched, raised, captures, counted,
                  launched, prevRaised, prevCounted >>

Next ==
  \/ TokenMissing
  \/ ReadTimestamps
  \/ GetProjectFolders
  \/ GetRepoInfo
  \/ SkipNoCommit
  \/ SkipUpToDate
  \/ TimestampOnly
  \/ CallTakeScreenshot
  \/ Launch
  \/ NewPage
  \/ SetViewport
  \/ Goto
  \/ Screenshot
  \/ BrowserClose
  \/ RecordScreenshot
  \/ WriteTimestamps

Spec == Init /\ [][Next]_vars

\* The scheduled workflow starts the script again: a new process on the file
\* the finished run left, against the same repositories.
RunAgain ==
  /\ pc = "done"
  /\ run = 1
  /\ run' = 2
  /\ prevRaised' = raised
  /\ prevCounted' = counted
  /\ pc' = "main"
  /\ exitCode' = -1
  /\ timestamps' = EmptyLedger
  /\ projects' = <<>>
  /\ idx' = 0
  /\ info' = NoInfo
  /\ screenshotCount' = 0
  /\ timestampOnlyCount' = 0
  /\ browsers' = 0
  /\ pending' = FALSE
  /\ loads' = 0
  /\ writes' = 0
  /\ startLedger' = EmptyLedger
  /\ fetched' = {}
  /\ raised' = {}
  /\ captures' = [p \in Projects |-> <<>>]
  /\ counted' = [p \in Projects |-> "none"]
  /\ launched' = 0
  /\ UNCHANGED << token, disk, remote >>

NextTwice == Next \/ RunAgain

SpecTwice == Init /\ [][NextTwice]_vars

\* ------------------------------------------------------------- properties
\* What a successful getRepoInfo returns for project p.
InfoOf(p) == getRepoInfo(remote[p])

\* The run has finished normally.
Finished == pc = "done"

\* Project p has a ledger entry at the start of the run that is strictly
\* earlier than the commit fetched for it.
EntryOlder(p) ==
  /\ p \in fetched
  /\ TruthyDate(InfoOf(p).committedDate)
  /\ TruthyDate(startLedger[p])
  /\ ParseDate(startLedger[p]) < ParseDate(InfoOf(p).committedDate)

\* Project p has a ledger entry at the start of the run that is at or after
\* the commit fetched for it.
EntryCurrent(p) ==
  /\ p \in fetched
  /\ TruthyDate(InfoOf(p).committedDate)
  /\ TruthyDate(startLedger[p])
  /\ ParseDate(startLedger[p]) >= ParseDate(InfoOf(p).committedDate)

\* The positions of control inside takeScreenshot.
CapturePcs == {"launch", "newPage", "setViewport", "goto", "screenshot", "finally"}

\* The positions at which a launched browser has not yet been closed.
BrowserPcs == {"newPage", "setViewport", "goto", "screenshot", "finally"}

\* C1: at the end of a run, every project whose fetch returned a commit
\* strictly newer than its ledger entry and a homepage URL has had
\* takeScreenshot called exactly once, with that URL.
C1_CaptureOnceWithUrl ==
  Finished =>
    \A p \in Projects :
      (EntryOlder(p) /\ InfoOf(p).homepageUrl # Null) =>
        /\ Len(captures[p]) = 1
        /\ captures[p][1].url = InfoOf(p).homepageUrl

C1_Witness ==
  /\ Finished
  /\ \E p \in Projects :
       /\ EntryOlder(p) /\ InfoOf(p).homepageUrl # Null
       /\ Len(captures[p]) = 1
       /\ counted[p] = "screenshot"

\* C2: at the end of a run, a project whose ledger entry is at or after the
\* fetched commit (as instants) has had no capture and keeps its entry.
C2_UpToDateUntouched ==
  Finished =>
    \A p \in Projects :
      EntryCurrent(p) =>
        /\ captures[p] = <<>>
        /\ timestamps[p] = startLedger[p]
        /\ disk.obj[p] = startLedger[p]

\* The entry and the commit are the same instant written differently.
C2_Witness ==
  /\ Finished
  /\ \E p \in Projects :
       /\ EntryCurrent(p)
       /\ ParseDate(startLedger[p]) = ParseDate(InfoOf(p).committedDate)
       /\ startLedger[p] # InfoOf(p).committedDate
       /\ InfoOf(p).homepageUrl # Null
       /\ captures[p] = <<>>

\* C3: at the end of a run, a project whose fetch returned no commit date
\* has had no capture and its ledger entry (present or missing) is as loaded.
C3_NullCommitUntouched ==
  Finished =>
    \A p \in Projects :
      (p \in fetched /\ InfoOf(p).committedDate = NoDate) =>
        /\ captures[p] = <<>>
        /\ timestamps[p] = startLedger[p]
        /\ disk.obj[p] = startLedger[p]
        /\ counted[p] = "none"

C3_Witness ==
  /\ Finished
  /\ \E p, q \in Projects :
       /\ p \in fetched /\ InfoOf(p).committedDate = NoDate
       /\ InfoOf(p).homepageUrl # Null
       /\ TruthyDate(startLedger[p])
       /\ q \in fetched /\ InfoOf(q).committedDate = NoDate
       /\ startLedger[q] = NoDate

\* C4: at the end of a run, a project with a fetched commit newer than its
\* entry (or no entry) and no homepage has the commit date as its entry, no
\* capture, and was counted as a timestamp-only update; the two counters
\* count exactly the projects so marked.
C4_TimestampOnly ==
  Finished =>
    /\ \A p \in Projects :
         ( /\ p \in fetched
           /\ TruthyDate(InfoOf(p).committedDate)
           /\ (startLedger[p] = NoDate \/ EntryOlder(p))
           /\ InfoOf(p).homepageUrl = Null ) =>
           /\ timestamps[p] = InfoOf(p).committedDate
           /\ captures[p] = <<>>
           /\ counted[p] = "timestampOnly"
    /\ timestampOnlyCount = Cardinality({p \in Projects : counted[p] = "timestampOnly"})
    /\ screenshotCount = Cardinality({p \in Projects : counted[p] = "screenshot"})

C4_Witness ==
  /\ Finished
  /\ \E p, q \in Projects :
       /\ p \in fetched /\ EntryOlder(p) /\ InfoOf(p).homepageUrl = Null
       /\ q \in fetched /\ startLedger[q] = NoDate /\ InfoOf(q).homepageUrl = Null
       /\ TruthyDate(InfoOf(q).committedDate)
       /\ p # q
       /\ timestampOnlyCount = 2 /\ screenshotCount = 0

\* C5 as stated: a second run against unchanged repositories makes no
\* capture and no ledger change, whatever happened in the first run.
C5_SecondRunIdle ==
  (run = 2 /\ Finished) =>
    /\ \A p \in Projects : captures[p] = <<>>
    /\ timestamps = startLedger

\* C5 amended: a second run against unchanged repositories makes no capture
\* and no ledger change for any project whose processing did not raise in
\* the first run.
C5_SecondRunIdleUnlessRaised ==
  (run = 2 /\ Finished) =>
    \A p \in Projects \ prevRaised :
      /\ captures[p] = <<>>
      /\ timestamps[p] = startLedger[p]
      /\ counted[p] = "none"

\* The first run captured p and failed on q; the second leaves p alone and
\* captures q.
C5_Witness ==
  /\ run = 2 /\ Finished
  /\ \E p, q \in Projects :
       /\ prevCounted[p] = "screenshot" /\ p \in fetched /\ captures[p] = <<>>
       /\ q \in prevRaised /\ counted[q] = "screenshot"

\* C6: a project whose processing ended in the catch block keeps the entry
\* it had and is not counted; while a capture is under way the entry is not
\* yet written; the other entries are the loaded value or the commit date
\* their own processing recorded; and the run ends with every project tried.
C6_ErrorLeavesLedger ==
  /\ \A p \in Projects :
       /\ p \in raised => (timestamps[p] = startLedger[p] /\ counted[p] = "none")
       /\ p \notin fetched => timestamps[p] = startLedger[p]
       /\ counted[p] # "none" => timestamps[p] = InfoOf(p).committedDate
  /\ pc \in CapturePcs => timestamps[project] = startLedger[project]
  /\ Finished => fetched \cup raised = Projects

\* The first project's capture raised, the second was fetched and captured.
C6_Witness ==
  /\ Finished
  /\ projects[1] \in raised /\ captures[projects[1]] # <<>>
  /\ TruthyDate(startLedger[projects[1]])
  /\ counted[projects[2]] = "screenshot"

C8_NoTokenNoWork ==
  ~Truthy(token) =>
    /\ pc \in {"main", "exited"}
    /\ loads = 0 /\ writes = 0
    /\ projects = <<>>
    /\ fetched = {} /\ raised = {}
    /\ \A p \in Projects : captures[p] = <<>>
    /\ launched = 0
    /\ pc = "exited" => exitCode = 1
    /\ exitCode \in {-1, 1}

C8_Witness ==
  /\ pc = "exited" /\ exitCode = 1
  /\ token = ""
  /\ disk.kind = "json"
  /\ \E p \in Projects : TruthyDate(InfoOf(p).committedDate) /\ disk.obj[p] = NoDate

\* C9: a browser is live only inside the takeScreenshot call that launched
\* it: at most one at a time, and none when a project starts, when the
\* commit date is recorded, when the ledger is written or after.
C9_BrowserScoped ==
  /\ browsers \in {0, 1}
  /\ browsers = 1 <=> pc \in BrowserPcs

\* Two captures, one of which raised, and no browser left.
C9_Witness ==
  /\ pc = "writeTimestamps"
  /\ launched = 2
  /\ \E p \in Projects : p \in raised /\ captures[p] # <<>>
  /\ browsers = 0

\* C10: an entry is never removed and never moves back; an entry that
\* differs from the loaded one is the commit date fetched in this run and
\* strictly later than the loaded one; and the entries changed or added
\* are as many as the two counters together.
C10_LedgerMonotone ==
  /\ \A k \in LedgerKeys :
       TruthyDate(startLedger[k]) =>
         /\ TruthyDate(timestamps[k])
         /\ ParseDate(timestamps[k]) >= ParseDate(startLedger[k])
  /\ \A k \in StaleKeys : timestamps[k] = startLedger[k]
  /\ \A p \in Projects :
       /\ counted[p] # "none" =>
            /\ p \in fetched
            /\ timestamps[p] = InfoOf(p).committedDate
            /\ timestamps[p] # startLedger[p]
            /\ TruthyDate(startLedger[p]) =>
                 ParseDate(timestamps[p]) > ParseDate(startLedger[p])
       /\ timestamps[p] # startLedger[p] => counted[p] # "none"
  /\ Cardinality({k \in LedgerKeys : timestamps[k] # startLedger[k]})
       = screenshotCount + timestampOnlyCount

C10_Witness ==
  /\ Finished
  /\ \E p, q \in Projects :
       /\ counted[p] = "screenshot" /\ TruthyDate(startLedger[p])
       /\ counted[q] = "timestampOnly" /\ startLedger[q] = NoDate
  /\ \E k \in StaleKeys : TruthyDate(timestamps[k])
  /\ screenshotCount + timestampOnlyCount = 2

====
